---- MODULE Spec2Model ----
(***************************************************************************)
(* Model of send_report.py: one run of send_grooming_report, from the      *)
(* construction of the Telegram bot to the return of send_sms.             *)
(*                                                                         *)
(* Python values are modelled as follows.                                  *)
(*   - an optional value (None or x) is <<>> or <<x>>;                     *)
(*   - an environment string that the code splits and strips               *)
(*     (SMS_RECIPIENTS) is a sequence of one-character strings;            *)
(*   - a text built with f-strings and join (date_str, caption,            *)
(*     sms_message) is the sequence of the pieces concatenated, the        *)
(*     line break "\n" being a piece of its own;                           *)
(*   - a dict is a function whose domain is the set of its keys.           *)
(***************************************************************************)
EXTENDS Integers, Sequences, FiniteSets, TLC

VARIABLES
    env,            \* module-level configuration read from os.environ
    now,            \* the Mountain Time clock reading of the run
    pc,             \* position of the run in send_grooming_report / send_sms
    outcome,        \* "running", "returned" or "raised"
    calls,          \* collaborator calls made so far, in order
    date_str,       \* local date_str
    scrape_error,   \* "pending", "none", or the step of get_opensnow_data that raised
    data,           \* local data (dict returned by get_opensnow_data)
    artifact,       \* "pending", "ok" or "failed": PDF fetch and render
    image_bytes,    \* local image_bytes, optional
    hourly_text,    \* local hourly_text, optional
    caption,        \* local caption
    sent_photos,    \* arguments and result of each bot.send_photo call
    sms_message,    \* local sms_message
    recipients,     \* send_sms local recipients
    rcpt_i,         \* index of the for loop of send_sms
    sendmail_log    \* arguments and result of each server.sendmail call

vars == <<env, now, pc, outcome, calls, date_str, scrape_error, data, artifact,
          image_bytes, hourly_text, caption, sent_photos, sms_message,
          recipients, rcpt_i, sendmail_log>>

---------------------------------------------------------------------------
(* Bounds of the model *)

\* longest token sequence handed to format_hourly_forecast and the SMS builder
MaxLen == 7
\* longest SMS_RECIPIENTS environment string, in characters
MaxEnvLen == 3

(* Program constants *)

\* hourly[...] = tokens[:6]
MaxTokens == 6
\* num_hours = min(6, ...)
MaxHours == 6
\* [:3] and min(3, ...) of the SMS message
SmsHours == 3

---------------------------------------------------------------------------
(* Python built-ins *)

None == <<>>
Some(x) == <<x>>
NL == "\n"

Min2(a, b) == IF a <= b THEN a ELSE b

\* s[:n]
Prefix(s, n) == SubSeq(s, 1, Min2(n, Len(s)))

\* dict.get(key, default)
Get(d, key, default) == IF key \in DOMAIN d THEN d[key] ELSE default

\* sep.join(parts), parts being texts
RECURSIVE Join(_, _)
Join(parts, sep) ==
    IF Len(parts) = 0 THEN <<>>
    ELSE IF Len(parts) = 1 THEN parts[1]
    ELSE parts[1] \o <<sep>> \o Join(Tail(parts), sep)

\* str.split(sep) on a string of characters: always at least one field
RECURSIVE SplitFrom(_, _, _, _)
SplitFrom(s, sep, i, field) ==
    IF i > Len(s) THEN <<field>>
    ELSE IF s[i] = sep THEN <<field>> \o SplitFrom(s, sep, i + 1, <<>>)
    ELSE SplitFrom(s, sep, i + 1, Append(field, s[i]))

Split(s, sep) == SplitFrom(s, sep, 1, <<>>)

\* str.strip() on a string of characters (the only whitespace modelled is " ")
RECURSIVE LStrip(_)
LStrip(s) == IF Len(s) > 0 /\ s[1] = " " THEN LStrip(Tail(s)) ELSE s

RECURSIVE RStrip(_)
RStrip(s) ==
    IF Len(s) > 0 /\ s[Len(s)] = " " THEN RStrip(SubSeq(s, 1, Len(s) - 1)) ELSE s

Strip(s) == RStrip(LStrip(s))

\* [f(x) for x in s if keep(x)] with f = strip and keep = non-empty after strip
RECURSIVE StripNonBlank(_)
StripNonBlank(fields) ==
    IF Len(fields) = 0 THEN <<>>
    ELSE LET r == Strip(fields[1]) IN
         (IF Len(r) > 0 THEN <<r>> ELSE <<>>) \o StripNonBlank(Tail(fields))

\* truth value of an optional environment string: None and "" are false
Truthy(opt) == opt # None /\ opt[1] # ""

---------------------------------------------------------------------------
(* Configuration, lines 14-23 *)

BOT_TOKEN == env.BOT_TOKEN
CHANNEL_ID == "@bcskireport"
SMTP_EMAIL == env.SMTP_EMAIL
SMTP_PASSWORD == env.SMTP_PASSWORD
SMS_RECIPIENTS == env.SMS_RECIPIENTS

---------------------------------------------------------------------------
(* Date formatting *)

\* get_ordinal_suffix without the test of line 63
get_ordinal_suffix_NoTeens(day) ==
    CASE day % 10 = 1 -> "st"
      [] day % 10 = 2 -> "nd"
      [] day % 10 = 3 -> "rd"
      [] OTHER -> "th"

get_ordinal_suffix(day) ==
    IF 11 <= day /\ day <= 13 THEN "th"
    ELSE CASE day % 10 = 1 -> "st"
           [] day % 10 = 2 -> "nd"
           [] day % 10 = 3 -> "rd"
           [] OTHER -> "th"

\* strftime('%b')
MonthAbbr ==
    <<"Jan", "Feb", "Mar", "Apr", "May", "Jun",
      "Jul", "Aug", "Sep", "Oct", "Nov", "Dec">>

\* now.strftime(f'%b {day}{suffix}')
get_formatted_date(t) ==
    LET day == t.day
        suffix == get_ordinal_suffix(day)
    IN <<MonthAbbr[t.month], " ", ToString(day), suffix>>

---------------------------------------------------------------------------
(* Scraping: get_opensnow_data *)

\* A page is what the regular expressions of lines 92-134 find in page_text:
\*   last_24h, next_5_days : the group of re.search, optional;
\*   times                 : the list of re.findall over the whole text;
\*   temps, feels, winds, clouds : optional (None when the section delimited by
\*       its two headers is not found), else the list of re.findall in it.
EmptyDict == [k \in {} |-> None]

\* the steps of get_opensnow_data inside its try block that can raise
ScrapeSteps == {"launch", "goto", "inner_text", "parse", "close"}

\* list found in an optional section, cut to six tokens; [] when not found
SectionTokens(section) ==
    IF section = None THEN <<>> ELSE Prefix(section[1], MaxTokens)

ParseHourly(page) ==
    [times  |-> IF Len(page.times) > 0 THEN Prefix(page.times, MaxTokens) ELSE <<>>,
     temps  |-> SectionTokens(page.temps),
     feels  |-> SectionTokens(page.feels),
     winds  |-> SectionTokens(page.winds),
     clouds |-> SectionTokens(page.clouds)]

\* the dict built on lines 85-138
ParsePage(page) ==
    LET keys == {"hourly"}
                \cup (IF page.last_24h # None THEN {"last_24h"} ELSE {})
                \cup (IF page.next_5_days # None THEN {"next_5_days"} ELSE {})
    IN [k \in keys |->
            CASE k = "last_24h" -> page.last_24h[1]
              [] k = "next_5_days" -> page.next_5_days[1]
              [] OTHER -> ParseHourly(page)]

\* get_opensnow_data returning the parsed dict when browser.close() raises
get_opensnow_data_KeepsParsed(page, raised) ==
    IF raised \in {"none", "close"} THEN ParsePage(page) ELSE EmptyDict

\* raised = "none", or the step that raised: the except clause returns {}
get_opensnow_data(page, raised) ==
    IF raised = "none" THEN ParsePage(page) ELSE EmptyDict

---------------------------------------------------------------------------
(* Caption and SMS text *)

\* format_hourly_forecast with num_hours = min(6, len(times))
format_hourly_forecast_TimesOnly(hourly) ==
    IF DOMAIN hourly = {} THEN None
    ELSE
    LET times == Get(hourly, "times", <<>>)
        temps == Get(hourly, "temps", <<>>)
        feels == Get(hourly, "feels", <<>>)
        winds == Get(hourly, "winds", <<>>)
        num_hours == Min2(MaxHours, Len(times))
        line(i) ==
            LET time == IF i <= Len(times) THEN times[i] ELSE "?"
                temp == IF i <= Len(temps) THEN temps[i] ELSE "?"
                feel == IF i <= Len(feels) THEN feels[i] ELSE "?"
                wind == IF i <= Len(winds) THEN winds[i] ELSE "?"
            IN <<time, ": ", temp, "[deg] (feels ", feel, "[deg]), ", wind>>
    IN IF Len(times) = 0 \/ Len(temps) = 0 THEN None
       ELSE IF num_hours = 0 THEN None
       ELSE Some(Join([i \in 1..num_hours |-> line(i)], NL))

format_hourly_forecast(hourly) ==
    IF DOMAIN hourly = {} THEN None
    ELSE
    LET times == Get(hourly, "times", <<>>)
        temps == Get(hourly, "temps", <<>>)
        feels == Get(hourly, "feels", <<>>)
        winds == Get(hourly, "winds", <<>>)
        num_hours == Min2(MaxHours, Min2(Len(times), Len(temps)))
        line(i) ==
            LET time == IF i <= Len(times) THEN times[i] ELSE "?"
                temp == IF i <= Len(temps) THEN temps[i] ELSE "?"
                feel == IF i <= Len(feels) THEN feels[i] ELSE "?"
                wind == IF i <= Len(winds) THEN winds[i] ELSE "?"
            IN <<time, ": ", temp, "[deg] (feels ", feel, "[deg]), ", wind>>
    IN IF Len(times) = 0 \/ Len(temps) = 0 THEN None
       ELSE IF num_hours = 0 THEN None
       ELSE Some(Join([i \in 1..num_hours |-> line(i)], NL))

\* data.get(key) is truthy: the key is there and its string is not empty
HasText(d, key) == key \in DOMAIN d /\ d[key] # ""

\* snow_parts, lines 203-207
SnowParts(d) ==
    (IF HasText(d, "last_24h")
        THEN << <<"Last 24hrs: ", d["last_24h"], "\"">> >> ELSE <<>>)
    \o (IF HasText(d, "next_5_days")
        THEN << <<"Next 5 days: ", d["next_5_days"], "\"">> >> ELSE <<>>)

\* the two emoji of the caption are written [ski] and [snowflake], the degree
\* sign [deg]
Title(ds) == <<"[ski] Beaver Creek Grooming Report - ">> \o ds

\* the caption with the hourly block under an else of the snow line
BuildCaptionText_ElseHourly(ds, d, ht) ==
    LET snow_parts == SnowParts(d)
    IN Title(ds)
       \o (IF Len(snow_parts) > 0
              THEN <<NL, "[snowflake] Snow: ">> \o Join(snow_parts, " | ")
           ELSE IF ht # None /\ Len(ht[1]) > 0
              THEN <<NL, NL, "Hourly Forecast:", NL>> \o ht[1] ELSE <<>>)

\* caption, lines 200-215; ht is hourly_text
BuildCaptionText(ds, d, ht) ==
    LET snow_parts == SnowParts(d)
    IN Title(ds)
       \o (IF Len(snow_parts) > 0
              THEN <<NL, "[snowflake] Snow: ">> \o Join(snow_parts, " | ") ELSE <<>>)
       \o (IF ht # None /\ Len(ht[1]) > 0
              THEN <<NL, NL, "Hourly Forecast:", NL>> \o ht[1] ELSE <<>>)

\* sms_message, lines 229-246
BuildSmsText(ds, d) ==
    LET snow_parts == SnowParts(d)
        hourly == Get(d, "hourly", EmptyDict)
        times == Prefix(Get(hourly, "times", <<>>), SmsHours)
        temps == Prefix(Get(hourly, "temps", <<>>), SmsHours)
        feels == Prefix(Get(hourly, "feels", <<>>), SmsHours)
        row(i) ==
            LET temp == IF i <= Len(temps) THEN temps[i] ELSE "?"
                feel == IF i <= Len(feels) THEN feels[i] ELSE "?"
            IN <<times[i], ": ", temp, "[deg]F (feels ", feel, "[deg])", NL>>
        RECURSIVE Rows(_)
        Rows(i) == IF i > Min2(SmsHours, Len(times)) THEN <<>>
                   ELSE row(i) \o Rows(i + 1)
    IN <<"Beaver Creek ">> \o ds \o <<NL>>
       \o (IF Len(snow_parts) > 0
              THEN <<"Snow: ">> \o Join(snow_parts, " | ") \o <<NL>> ELSE <<>>)
       \o (IF Len(times) > 0 /\ Len(temps) > 0
              THEN <<"Forecast:", NL>> \o Rows(1) ELSE <<>>)
       \o <<"grooming.lumiplan.pro/beaver-creek-grooming-map.pdf">>

\* recipients, line 35
ParseRecipients(s) == StripNonBlank(Split(s, ","))

---------------------------------------------------------------------------
(* Inputs *)

\* the i-th token each findall yields: distinct per row and per position
Tok(key, i) ==
    CASE key = "times" -> ToString(i) \o "p"
      [] key = "temps" -> ToString(20 + i)
      [] key = "feels" -> ToString(10 + i)
      [] key = "winds" -> "W" \o ToString(i)
      [] key = "clouds" -> ToString(50 + i)

Tokens(key, n) == [i \in 1..n |-> Tok(key, i)]

MakePage(s24, s5, lt, temps, feels, winds, clouds) ==
    [last_24h |-> s24, next_5_days |-> s5, times |-> Tokens("times", lt),
     temps |-> temps, feels |-> feels, winds |-> winds, clouds |-> clouds]

\* pages of the run: no recognised pattern; snow figures only; a full table of
\* seven columns; a ragged table whose Feels Like section is not found
RunPages ==
    { MakePage(None, None, 0, None, None, None, None),
      MakePage(Some("6"), Some("14"), 0, None, None, None, None),
      MakePage(Some("6"), Some("14"), 7, Some(Tokens("temps", 7)),
               Some(Tokens("feels", 7)), Some(Tokens("winds", 7)),
               Some(Tokens("clouds", 7))),
      MakePage(None, Some("3"), 6, Some(Tokens("temps", 2)), None,
               Some(Tokens("winds", 1)), Some(<<>>)) }

\* a dict as get_opensnow_data returns it, with token lists of the given lengths
MakeData(s24, s5, lt, lp, lf, lw) ==
    LET keys == {"hourly"}
                \cup (IF s24 # None THEN {"last_24h"} ELSE {})
                \cup (IF s5 # None THEN {"next_5_days"} ELSE {})
    IN [k \in keys |->
            CASE k = "last_24h" -> s24[1]
              [] k = "next_5_days" -> s5[1]
              [] OTHER -> [times |-> Tokens("times", lt), temps |-> Tokens("temps", lp),
                           feels |-> Tokens("feels", lf), winds |-> Tokens("winds", lw),
                           clouds |-> <<>>]]

\* arguments of the caption and SMS builders: {} and every dict with token
\* lists of 0..MaxLen entries
FmtDatas ==
    {EmptyDict} \cup
    { MakeData(s24, s5, lt, lp, lf, lw) :
        s24 \in {None, Some("6")}, s5 \in {None, Some("14")},
        lt \in 0..MaxLen, lp \in 0..MaxLen, lf \in 0..MaxLen, lw \in 0..MaxLen }

\* clock readings: every day of every month (February of a leap year)
DaysIn == <<31, 29, 31, 30, 31, 30, 31, 31, 30, 31, 30, 31>>
AllDates == { t \in [month : 1..12, day : 1..31] : t.day <= DaysIn[t.month] }
RunDates == { [month |-> 1, day |-> 31], [month |-> 12, day |-> 12] }

\* environment: each secret unset, set to the empty string, or set
OptStrings == {None, Some(""), Some("set")}
EnvChars == {"a", "b", ",", " "}
EnvStrings == UNION { [1..n -> EnvChars] : n \in 0..MaxEnvLen }
Envs == [BOT_TOKEN : OptStrings, SMTP_EMAIL : OptStrings,
         SMTP_PASSWORD : OptStrings, SMS_RECIPIENTS : EnvStrings]
ConfiguredEnv == [BOT_TOKEN |-> Some("set"), SMTP_EMAIL |-> Some("set"),
                  SMTP_PASSWORD |-> Some("set"), SMS_RECIPIENTS |-> <<"a", ",", "b">>]

---------------------------------------------------------------------------
(* The run *)

Locals ==
    /\ outcome = "running"
    /\ calls = <<>>
    /\ date_str = <<>>
    /\ scrape_error = "pending"
    /\ data = EmptyDict
    /\ artifact = "pending"
    /\ image_bytes = None
    /\ hourly_text = None
    /\ caption = <<>>
    /\ sent_photos = <<>>
    /\ sms_message = <<>>
    /\ recipients = <<>>
    /\ rcpt_i = 0
    /\ sendmail_log = <<>>

Init ==
    /\ env \in Envs
    /\ now \in RunDates
    /\ pc = "bot"
    /\ Locals

\* an exception leaves send_grooming_report
Raise ==
    /\ pc' = "done"
    /\ outcome' = "raised"

\* send_sms returns, and send_grooming_report with it
Return ==
    /\ pc' = "done"
    /\ outcome' = "returned"

\* bot = Bot(token=BOT_TOKEN). No guard on BOT_TOKEN: with a token that is None
\* or empty the library either refuses to construct the bot or constructs one
\* whose sends cannot succeed.
NewBot ==
    /\ pc = "bot"
    /\ calls' = Append(calls, "Bot")
    /\ \E constructed \in (IF Truthy(BOT_TOKEN) THEN {TRUE} ELSE BOOLEAN) :
          IF constructed THEN pc' = "date" /\ outcome' = outcome ELSE Raise
    /\ UNCHANGED <<env, now, date_str, scrape_error, data, artifact, image_bytes,
                   hourly_text, caption, sent_photos, sms_message, recipients,
                   rcpt_i, sendmail_log>>

\* date_str = get_formatted_date()
GetFormattedDate ==
    /\ pc = "date"
    /\ date_str' = get_formatted_date(now)
    /\ pc' = "scrape"
    /\ UNCHANGED <<env, now, outcome, calls, scrape_error, data, artifact,
                   image_bytes, hourly_text, caption, sent_photos, sms_message,
                   recipients, rcpt_i, sendmail_log>>

\* data = await get_opensnow_data()
GetOpensnowData ==
    /\ pc = "scrape"
    /\ \E page \in RunPages, raised \in ScrapeSteps \cup {"none"} :
          /\ data' = get_opensnow_data(page, raised)
          /\ scrape_error' = raised
    /\ calls' = Append(calls, "get_opensnow_data")
    /\ pc' = "download"
    /\ UNCHANGED <<env, now, outcome, date_str, artifact, image_bytes,
                   hourly_text, caption, sent_photos, sms_message, recipients,
                   rcpt_i, sendmail_log>>

\* the download without response.raise_for_status()
DownloadPdf_NoRaiseForStatus ==
    /\ pc = "download"
    /\ calls' = Append(calls, "requests.get")
    /\ \E response \in {"2xx", "non-2xx", "exception"} :
          IF response = "2xx"
             THEN pc' = "render" /\ UNCHANGED <<outcome, artifact>>
          ELSE IF response = "non-2xx"
             THEN pc' = "render" /\ artifact' = "failed" /\ outcome' = outcome
          ELSE Raise /\ artifact' = "failed"
    /\ UNCHANGED <<env, now, date_str, scrape_error, data, image_bytes,
                   hourly_text, caption, sent_photos, sms_message, recipients,
                   rcpt_i, sendmail_log>>

\* response = requests.get(PDF_URL); response.raise_for_status()
DownloadPdf ==
    /\ pc = "download"
    /\ calls' = Append(calls, "requests.get")
    /\ \E response \in {"2xx", "non-2xx", "exception"} :
          IF response = "2xx"
             THEN pc' = "render" /\ UNCHANGED <<outcome, artifact>>
             ELSE Raise /\ artifact' = "failed"
    /\ UNCHANGED <<env, now, date_str, scrape_error, data, image_bytes,
                   hourly_text, caption, sent_photos, sms_message, recipients,
                   rcpt_i, sendmail_log>>

\* fitz.open, pdf_document[0], get_pixmap, tobytes
RenderPdf ==
    /\ pc = "render"
    /\ calls' = Append(calls, "fitz")
    /\ \E rendered \in BOOLEAN :
          IF rendered
             THEN /\ image_bytes' = Some("png")
                  /\ artifact' = "ok"
                  /\ pc' = "caption"
                  /\ outcome' = outcome
             ELSE Raise /\ artifact' = "failed" /\ image_bytes' = image_bytes
    /\ UNCHANGED <<env, now, date_str, scrape_error, data, hourly_text, caption,
                   sent_photos, sms_message, recipients, rcpt_i, sendmail_log>>

\* lines 200-215
BuildCaption ==
    /\ pc = "caption"
    /\ LET ht == format_hourly_forecast(Get(data, "hourly", None))
       IN /\ hourly_text' = ht
          /\ caption' = BuildCaptionText(date_str, data, ht)
    /\ pc' = "telegram"
    /\ UNCHANGED <<env, now, outcome, calls, date_str, scrape_error, data,
                   artifact, image_bytes, sent_photos, sms_message, recipients,
                   rcpt_i, sendmail_log>>

\* await bot.send_photo(...): not inside any try
SendPhoto ==
    /\ pc = "telegram"
    /\ calls' = Append(calls, "send_photo")
    /\ \E ok \in (IF Truthy(BOT_TOKEN) THEN BOOLEAN ELSE {FALSE}) :
          /\ sent_photos' = Append(sent_photos,
                [chat_id |-> CHANNEL_ID, photo |-> image_bytes[1],
                 caption |-> caption, ok |-> ok])
          /\ IF ok THEN pc' = "sms_message" /\ outcome' = outcome ELSE Raise
    /\ UNCHANGED <<env, now, date_str, scrape_error, data, artifact, image_bytes,
                   hourly_text, caption, sms_message, recipients, rcpt_i,
                   sendmail_log>>

\* lines 229-246
BuildSmsMessage ==
    /\ pc = "sms_message"
    /\ sms_message' = BuildSmsText(date_str, data)
    /\ pc' = "send_sms"
    /\ UNCHANGED <<env, now, outcome, calls, date_str, scrape_error, data,
                   artifact, image_bytes, hourly_text, caption, sent_photos,
                   recipients, rcpt_i, sendmail_log>>

\* send_sms(sms_message), lines 27-38: the three early returns
SendSms ==
    /\ pc = "send_sms"
    /\ calls' = Append(calls, "send_sms")
    /\ IF ~Truthy(SMTP_EMAIL) \/ ~Truthy(SMTP_PASSWORD)
          THEN Return /\ recipients' = recipients
       ELSE IF Len(SMS_RECIPIENTS) = 0
          THEN Return /\ recipients' = recipients
       ELSE LET r == ParseRecipients(SMS_RECIPIENTS)
            IN /\ recipients' = r
               /\ IF Len(r) = 0 THEN Return
                  ELSE pc' = "smtp_connect" /\ outcome' = outcome
    /\ UNCHANGED <<env, now, date_str, scrape_error, data, artifact, image_bytes,
                   hourly_text, caption, sent_photos, sms_message, rcpt_i,
                   sendmail_log>>

\* smtplib.SMTP(...), starttls(), login(...): inside the try of send_sms
SmtpConnect ==
    /\ pc = "smtp_connect"
    /\ calls' = Append(calls, "SMTP")
    /\ \E ok \in BOOLEAN :
          IF ok THEN pc' = "smtp_send" /\ rcpt_i' = 1 /\ outcome' = outcome
          ELSE Return /\ rcpt_i' = rcpt_i
    /\ UNCHANGED <<env, now, date_str, scrape_error, data, artifact, image_bytes,
                   hourly_text, caption, sent_photos, sms_message, recipients,
                   sendmail_log>>

\* one iteration of the for loop, lines 47-54; an exception leaves the loop for
\* the except clause of line 58
SmtpSendmail ==
    /\ pc = "smtp_send"
    /\ calls' = Append(calls, "sendmail")
    /\ \E ok \in BOOLEAN :
          /\ sendmail_log' = Append(sendmail_log,
                [from |-> SMTP_EMAIL[1], to |-> recipients[rcpt_i],
                 body |-> sms_message, ok |-> ok])
          /\ IF ~ok THEN Return /\ rcpt_i' = rcpt_i
             ELSE IF rcpt_i < Len(recipients)
                THEN rcpt_i' = rcpt_i + 1 /\ UNCHANGED <<pc, outcome>>
             ELSE pc' = "smtp_quit" /\ UNCHANGED <<rcpt_i, outcome>>
    /\ UNCHANGED <<env, now, date_str, scrape_error, data, artifact, image_bytes,
                   hourly_text, caption, sent_photos, sms_message, recipients>>

\* server.quit(), then the return of send_sms; an exception is caught on line 58
SmtpQuit ==
    /\ pc = "smtp_quit"
    /\ calls' = Append(calls, "quit")
    /\ Return
    /\ UNCHANGED <<env, now, date_str, scrape_error, data, artifact, image_bytes,
                   hourly_text, caption, sent_photos, sms_message, recipients,
                   rcpt_i, sendmail_log>>

Next ==
    \/ NewBot
    \/ GetFormattedDate
    \/ GetOpensnowData
    \/ DownloadPdf
    \/ RenderPdf
    \/ BuildCaption
    \/ SendPhoto
    \/ BuildSmsMessage
    \/ SendSms
    \/ SmtpConnect
    \/ SmtpSendmail
    \/ SmtpQuit

Spec == Init /\ [][Next]_vars

---------------------------------------------------------------------------
(* The caption and SMS builders on every argument *)

InitFmt ==
    /\ env = ConfiguredEnv
    /\ now = [month |-> 1, day |-> 31]
    /\ pc = "caption"
    /\ outcome = "running"
    /\ calls = <<"Bot", "get_opensnow_data", "requests.get", "fitz">>
    /\ date_str = get_formatted_date(now)
    /\ scrape_error = "none"
    /\ data \in FmtDatas
    /\ artifact = "ok"
    /\ image_bytes = Some("png")
    /\ hourly_text = None
    /\ caption = <<>>
    /\ sent_photos = <<>>
    /\ sms_message = <<>>
    /\ recipients = <<>>
    /\ rcpt_i = 0
    /\ sendmail_log = <<>>

NextFmt ==
    \/ BuildCaption
    \/ SendPhoto
    \/ BuildSmsMessage

SpecFmt == InitFmt /\ [][NextFmt]_vars

(* get_formatted_date on every clock reading *)

InitDate ==
    /\ env = ConfiguredEnv
    /\ now \in AllDates
    /\ pc = "date"
    /\ Locals

NextDate == GetFormattedDate

SpecDate == InitDate /\ [][NextDate]_vars

---------------------------------------------------------------------------
(* Reading the texts back *)

\* text.split("\n")
RECURSIVE LinesFrom(_, _, _)
LinesFrom(text, i, line) ==
    IF i > Len(text) THEN <<line>>
    ELSE IF text[i] = NL THEN <<line>> \o LinesFrom(text, i + 1, <<>>)
    ELSE LinesFrom(text, i + 1, Append(line, text[i]))

Lines(text) == LinesFrom(text, 1, <<>>)

\* the lines that follow the first line equal to header, if any
LinesAfter(text, header) ==
    LET ls == Lines(text)
        at == { k \in 1..Len(ls) : ls[k] = header }
    IN IF at = {} THEN <<>>
       ELSE LET first == CHOOSE k \in at : \A j \in at : k <= j
            IN SubSeq(ls, first + 1, Len(ls))

HasLine(text, header) ==
    LET ls == Lines(text) IN \E k \in 1..Len(ls) : ls[k] = header

Called(op) == \E k \in 1..Len(calls) : calls[k] = op

\* the token lists of the dict in data
Extracted(key) == Get(Get(data, "hourly", EmptyDict), key, <<>>)

TelegramConfigured == Truthy(BOT_TOKEN)
SmsConfigured ==
    /\ Truthy(SMTP_EMAIL)
    /\ Truthy(SMTP_PASSWORD)
    /\ \E k \in 1..Len(SMS_RECIPIENTS) : SMS_RECIPIENTS[k] \notin {",", " "}

---------------------------------------------------------------------------
(* Dispatch *)

\* C1: when the artifact was produced and both Telegram and SMS are configured,
\* the finished run has attempted both channels (a send_photo and an SMTP
\* session) and has not raised, whatever each send answered.
C1_ChannelIsolation ==
    (pc = "done" /\ artifact = "ok" /\ TelegramConfigured /\ SmsConfigured)
        => /\ outcome = "returned"
           /\ Called("send_photo")
           /\ Called("SMTP")

\* C2: with Telegram configured, a run whose PDF fetch and render succeeded
\* ends by returning, for every outcome of the Telegram and SMS sends.
C2_RunSucceedsWithArtifact ==
    (pc = "done" /\ artifact = "ok" /\ TelegramConfigured)
        => outcome = "returned"

\* C3: a channel whose configuration is missing is skipped: no send on it, no
\* exception because of it (the finished run raised only if the artifact
\* failed), and the other channel is still reached.
C3_MissingConfigIsDisabled ==
    pc = "done" =>
        /\ ~TelegramConfigured =>
              /\ ~Called("send_photo")
              /\ outcome = "raised" => artifact = "failed"
              /\ artifact # "failed" => Called("send_sms")
        /\ ~SmsConfigured =>
              /\ ~Called("SMTP")
              /\ sendmail_log = <<>>

\* C4: once the scrape has raised at any of its steps, data is the empty dict,
\* the run is at or past the PDF download, a run that produced the artifact and
\* finished has attempted the Telegram send, and every caption built or sent is
\* the title line alone.
C4_ScrapeFailureDegrades ==
    scrape_error \in ScrapeSteps =>
        LET title == <<"[ski] Beaver Creek Grooming Report - ">> \o date_str
        IN /\ DOMAIN data = {}
           /\ pc = "download" \/ Called("requests.get")
           /\ (pc = "done" /\ artifact = "ok") => Len(sent_photos) = 1
           /\ (artifact = "ok" /\ pc # "caption") => Lines(caption) = <<title>>
           /\ \A k \in 1..Len(sent_photos) :
                 Lines(sent_photos[k].caption) = <<title>>

C4_Witness ==
    /\ scrape_error \in ScrapeSteps
    /\ pc = "done"
    /\ outcome = "returned"
    /\ Len(sent_photos) = 1
    /\ Len(sendmail_log) = 2

\* C5: once the PDF fetch or the render has failed, the run has raised and is
\* over, and no send_photo, no send_sms, no SMTP session and no sendmail was
\* made, whatever the scrape returned.
C5_ArtifactFailureIsFatal ==
    artifact = "failed" =>
        /\ pc = "done"
        /\ outcome = "raised"
        /\ sent_photos = <<>>
        /\ sendmail_log = <<>>
        /\ ~Called("send_photo")
        /\ ~Called("send_sms")
        /\ ~Called("SMTP")
        /\ ~Called("sendmail")

C5_Witness ==
    /\ artifact = "failed"
    /\ Called("fitz")
    /\ scrape_error = "none"
    /\ "last_24h" \in DOMAIN data
    /\ TelegramConfigured
    /\ SmsConfigured

\* C8: in a finished run whose SMS loop started, sendmail was invoked exactly
\* once for each configured recipient, in order, also when a send failed.
C8_OncePerRecipient ==
    (pc = "done" /\ Len(sendmail_log) > 0)
        => [k \in 1..Len(sendmail_log) |-> sendmail_log[k].to] = recipients

---------------------------------------------------------------------------
(* Hourly forecast *)

\* C6: the text of format_hourly_forecast has n lines, n being the least of 6,
\* len(times) and len(temps), and is None when times or temps is empty; line i
\* carries times[i] and temps[i], and feels[i] / winds[i] when that list has an
\* entry i, the placeholder "?" otherwise.
C6_AlignedSeries ==
    pc # "caption" =>
        LET times == Extracted("times")
            temps == Extracted("temps")
            feels == Extracted("feels")
            winds == Extracted("winds")
        IN IF Len(times) = 0 \/ Len(temps) = 0 THEN hourly_text = None
           ELSE /\ hourly_text # None
                /\ LET rows == Lines(hourly_text[1])
                       n == Len(rows)
                   IN /\ n <= 6 /\ n <= Len(times) /\ n <= Len(temps)
                      /\ n = 6 \/ n = Len(times) \/ n = Len(temps)
                      /\ \A i \in 1..n :
                            /\ Len(rows[i]) = 7
                            /\ rows[i][1] = times[i]
                            /\ rows[i][3] = temps[i]
                            /\ rows[i][5] = (IF i <= Len(feels) THEN feels[i] ELSE "?")
                            /\ rows[i][7] = (IF i <= Len(winds) THEN winds[i] ELSE "?")

C6_Witness ==
    /\ pc # "caption"
    /\ Len(Extracted("times")) = 6
    /\ Len(Extracted("temps")) = 2
    /\ Len(Extracted("feels")) = 0
    /\ Len(Extracted("winds")) = 1
    /\ hourly_text # None
    /\ Len(Lines(hourly_text[1])) = 2

\* the forecast rows of the SMS message: the lines after "Forecast:" but the last
SmsRows ==
    LET after == LinesAfter(sms_message, <<"Forecast:">>)
    IN IF Len(after) = 0 THEN <<>> ELSE SubSeq(after, 1, Len(after) - 1)

\* C7: for extracted lists (at most six tokens each), the SMS message has
\* min(3, len(times), len(temps)) forecast rows, and row i carries the time,
\* temperature and feels-like of line i of the caption's hourly block.
C7_SmsFirstThreePoints ==
    (/\ pc = "send_sms"
     /\ \A key \in {"times", "temps", "feels", "winds"} :
           Len(Extracted(key)) <= MaxTokens)
        => LET full == IF hourly_text = None THEN <<>> ELSE Lines(hourly_text[1])
               rows == SmsRows
           IN /\ Len(rows) = Min2(3, Min2(Len(Extracted("times")),
                                           Len(Extracted("temps"))))
              /\ \A i \in 1..Len(rows) :
                    /\ i <= Len(full)
                    /\ rows[i][1] = full[i][1]
                    /\ rows[i][3] = full[i][3]
                    /\ rows[i][5] = full[i][5]

\* the hourly block of the caption: the lines after "Hourly Forecast:"
HourlyBlock == LinesAfter(caption, <<"Hourly Forecast:">>)

\* C9 as stated: the hourly block has one line per populated field, and when
\* feels or winds is empty while times and temps are not, no line of the block
\* has a feels-like part or a wind part.
C9_OneLinePerPopulatedField ==
    (pc # "caption" /\ Len(Extracted("times")) > 0 /\ Len(Extracted("temps")) > 0)
        => LET block == HourlyBlock
           IN /\ Len(block) =
                    Cardinality({ key \in {"times", "temps", "feels", "winds"} :
                                     Len(Extracted(key)) > 0 })
              /\ Len(Extracted("feels")) = 0 =>
                    \A i \in 1..Len(block) : \A k \in 1..Len(block[i]) :
                       block[i][k] # "[deg] (feels "
              /\ Len(Extracted("winds")) = 0 =>
                    \A i \in 1..Len(block) : Len(block[i]) < 7

\* C9 amended: the hourly block has one line per hour of the horizon, absent
\* when times or temps is empty; every line is
\* "<time>: <temp>[deg] (feels <feel>[deg]), <wind>", and a field with no entry at all
\* shows as "?" on every line.
C9_OneLinePerHour ==
    pc # "caption" =>
        LET lt == Len(Extracted("times"))
            lp == Len(Extracted("temps"))
            lf == Len(Extracted("feels"))
            lw == Len(Extracted("winds"))
            block == HourlyBlock
        IN IF lt = 0 \/ lp = 0
              THEN ~HasLine(caption, <<"Hourly Forecast:">>)
              ELSE /\ HasLine(caption, <<"Hourly Forecast:">>)
                   /\ Len(block) = Min2(6, Min2(lt, lp))
                   /\ \A i \in 1..Len(block) :
                         LET row == block[i]
                         IN /\ Len(row) = 7
                            /\ row[2] = ": "
                            /\ row[4] = "[deg] (feels "
                            /\ row[6] = "[deg]), "
                            /\ row[1] # "?" /\ row[3] # "?"
                            /\ lf = 0 => row[5] = "?"
                            /\ lw = 0 => row[7] = "?"

C9_Witness ==
    /\ pc # "caption"
    /\ Len(Extracted("times")) = 6
    /\ Len(Extracted("temps")) = 6
    /\ Len(Extracted("feels")) = 0
    /\ Len(Extracted("winds")) = 0
    /\ Len(HourlyBlock) = 6
    /\ HourlyBlock[6][5] = "?"
    /\ HourlyBlock[6][7] = "?"

---------------------------------------------------------------------------
(* Date *)

\* C10: for every day of month 1..31 the suffix of date_str is "th" for 11, 12
\* and 13, otherwise "st", "nd", "rd" for a last digit 1, 2, 3 and "th" for any
\* other; days 1,2,3,4,11,12,13,21,22,23,31 give st,nd,rd,th,th,th,th,st,nd,rd,st.
C10_OrdinalSuffix ==
    pc # "date" =>
        LET d == now.day
            suffix == date_str[4]
            listed == <<1, 2, 3, 4, 11, 12, 13, 21, 22, 23, 31>>
            wanted == <<"st", "nd", "rd", "th", "th", "th", "th", "st", "nd", "rd", "st">>
        IN /\ Len(date_str) = 4
           /\ date_str[3] = ToString(d)
           /\ d \in {11, 12, 13} => suffix = "th"
           /\ d \notin {11, 12, 13} =>
                 /\ d \in {1, 21, 31} => suffix = "st"
                 /\ d \in {2, 22} => suffix = "nd"
                 /\ d \in {3, 23} => suffix = "rd"
                 /\ d \notin {1, 21, 31, 2, 22, 3, 23} => suffix = "th"
           /\ \A k \in 1..11 : d = listed[k] => suffix = wanted[k]

C10_Witness ==
    /\ pc # "date"
    /\ now.day = 12
    /\ date_str = <<"Dec", " ", "12", "th">>

====
